---- MODULE Spec2Model ----
(***************************************************************************)
(* Model of KafNafParserPy's generic element / collection layer            *)
(* (element.py: KafNafElement, KafNafElements) specialised to the term     *)
(* layer (term_data.py: Cterm, Cterms).                                    *)
(*                                                                         *)
(* The lxml tree is modelled as a heap of nodes (`nodes`, a sequence; a    *)
(* node reference is an index into it) plus the ordered list of direct     *)
(* children of the container element (`children`).  A node keeps its tag   *)
(* and the two attributes the layer reads and writes: the NAF identifier   *)
(* ("id") and the KAF identifier ("tid").  An absent attribute, which      *)
(* lxml's Element.get reports as None, is the value None.                  *)
(***************************************************************************)
EXTENDS Integers, Sequences, FiniteSets, TLC

\* ------------------------------------------------------------------ bounds
MaxInit == 2      \* children of the container when the collection is built
MaxNodes == 3     \* nodes ever attached to the container (initial + added)
MaxSub == 3       \* sub-nodes of one term
MaxRefs == 2      \* external references of one term

\* --------------------------------------------------------- input domains
None == "None"
Ids == {"t1", "t2"}
IdOrNone == Ids \cup {None}
Dialects == {"NAF", "KAF"}
NoNode == 0

\* Cterm.element_name / Cterms.child_element_name
element_name == "term"
child_element_name == "term"
\* Cterm.naf_identifier / Cterm.kaf_identifier
naf_identifier == "id"
kaf_identifier == "tid"
AttrNames == {naf_identifier, kaf_identifier}
\* an lxml comment is an element whose tag is never a child tag
CommentTag == "comment"

\* lxml Element.get / Element.set / del Element.attrib[...]
NodeGet(n, a) == n.attrib[a]
NodeSet(n, a, v) == [n EXCEPT !.attrib[a] = v]
NodeDel(n, a) == [n EXCEPT !.attrib[a] = None]
MkNode(t, i, k) == [tag |-> t, attrib |-> [a \in AttrNames |-> IF a = naf_identifier THEN i ELSE k]]

\* attribute pairs <<id, tid>> of the term nodes that are drawn as inputs:
\* a term node carries its identifier under at most one of the two names
AttrPairs == {p \in IdOrNone \X IdOrNone : p[1] = None \/ p[2] = None}
TermNodes == {MkNode(element_name, p[1], p[2]) : p \in AttrPairs}
CommentNode == MkNode(CommentTag, None, None)
DocNodes == TermNodes \cup {CommentNode}
InitDocs == UNION {[1..n -> DocNodes] : n \in 0..MaxInit}
\* an entity handed to add_child: a detached term node wrapped with a dialect
Entities == {[node |-> t, type |-> d] : t \in TermNodes, d \in Dialects}
NoEntity == [node |-> CommentNode, type |-> "NAF"]
IdSets == SUBSET Ids

\* sub[r]: the sub-nodes (span, sentiment, externalReferences) of node r, in
\* document order; ret: what the last call returned or yielded
VARIABLES nodes, children, type, idx, last, sub, ret
vars == <<nodes, children, type, idx, last, sub, ret>>
\* a node without sub-nodes, as etree.Element(element_name) creates it
NoSub == [r \in 1..(MaxInit + MaxNodes) |-> <<>>]

\* ------------------------------------------------------- KafNafElement
\* KafNafElement.get_id on the view (n, ty)
get_id(n, ty) ==
  IF ty = "NAF" THEN NodeGet(n, naf_identifier)
  ELSE IF ty = "KAF" THEN NodeGet(n, kaf_identifier)
  ELSE None

\* ------------------------------------------------------ KafNafElements
\* __get_child_nodes: the direct children with the child tag, document order
get_child_nodes(ch, ns) == SelectSeq(ch, LAMBDA r : ns[r].tag = child_element_name)

\* slip: an existing entry is kept, the first child with an id wins
IdxPut_first(ix, k, n) == IF ix[k] # 0 THEN ix ELSE [ix EXCEPT ![k] = n]
\* self.idx[k] = n
IdxPut(ix, k, n) == [ix EXCEPT ![k] = n]
\* k in self.idx
InIdx(ix, k) == ix[k] # NoNode
EmptyIdx == [k \in IdOrNone |-> NoNode]

RECURSIVE BuildIdx(_, _, _, _)
BuildIdx(ix, todo, ns, ty) ==
  IF todo = <<>> THEN ix
  ELSE BuildIdx(IdxPut(ix, get_id(ns[Head(todo)], ty), Head(todo)), Tail(todo), ns, ty)

\* KafNafElements.__init__
Construct(ch, ns, ty) == BuildIdx(EmptyIdx, get_child_nodes(ch, ns), ns, ty)

\* KafNafElements.get_child: the node of the returned view, NoNode for None
get_child(ix, k) == IF InIdx(ix, k) THEN ix[k] ELSE NoNode

\* slip: iteration walks the index instead of the live children
iterate_indexed(ch, ns) ==
  SelectSeq(ch, LAMBDA r : ns[r].tag = child_element_name
                            /\ \E k \in IdOrNone : idx[k] = r)
\* KafNafElements.__iter__: the nodes of the yielded views
iterate(ch, ns) == get_child_nodes(ch, ns)

\* the last call made and how it ended: operation, object argument,
\* identifier arguments, outcome
Rec(o, e, s, r) == [op |-> o, ent |-> e, ids |-> s, res |-> r]

Init ==
  \E doc \in InitDocs, ty \in Dialects :
    /\ nodes = doc
    /\ children = [i \in 1..Len(doc) |-> i]
    /\ type = ty
    /\ idx = Construct([i \in 1..Len(doc) |-> i], doc, ty)
    /\ last = Rec("init", NoEntity, {}, "ok")
    /\ sub = NoSub
    /\ ret = <<>>

\* self.node.append(child.get_node()) for a detached node
Appended(ch, r) == Append(ch, r)

\* slip: an absent identifier is never taken for a duplicate
IsDuplicate_truthy(ix, k) == k # None /\ InIdx(ix, k)
\* the test `child.get_id() in self.idx` of add_child
IsDuplicate(ix, k) == InIdx(ix, k)

\* KafNafElements.add_child
add_child(child) ==
  LET k == get_id(child.node, child.type) IN
  IF IsDuplicate(idx, k)
  THEN /\ last' = Rec("add_child", child, {}, "ValueError")
       /\ UNCHANGED <<nodes, children, type, idx, sub>>
       /\ ret' = <<>>
  ELSE /\ Len(nodes) < MaxNodes
       /\ nodes' = Append(nodes, child.node)
       /\ children' = Appended(children, Len(nodes) + 1)
       /\ idx' = IdxPut(idx, k, Len(nodes) + 1)
       /\ last' = Rec("add_child", child, {}, "ok")
       /\ UNCHANGED <<type, sub>>
       /\ ret' = <<>>

AddChild == \E child \in Entities : add_child(child)

\* slip: the sibling after the child is taken instead of the one before
getprevious_next(ch, i) == IF i < Len(ch) THEN ch[i + 1] ELSE NoNode
\* lxml getprevious() of the i-th child of the container
getprevious(ch, i) == IF i > 1 THEN ch[i - 1] ELSE NoNode

\* first loop of remove_children: the matching children and, for each, the
\* sibling right before it
nodes_to_remove(ch, ns, ty, ids) ==
  LET hit == {i \in 1..Len(ch) : /\ ns[ch[i]].tag = child_element_name
                                  /\ get_id(ns[ch[i]], ty) \in ids}
  IN {ch[i] : i \in hit} \cup ({getprevious(ch, i) : i \in hit} \ {NoNode})

\* second loop of remove_children: self.node.remove(node) for each collected node
RemoveAll(ch, S) == SelectSeq(ch, LAMBDA r : r \notin S)

\* the elements of a set in some order, as a Python `for` over a set visits them
RECURSIVE SeqOfSet(_)
SeqOfSet(S) ==
  IF S = {} THEN <<>>
  ELSE LET x == CHOOSE x \in S : \A y \in S : x <= y
       IN <<x>> \o SeqOfSet(S \ {x})

\* slip: nodes collected in a list instead of a set, every add is kept
RECURSIVE AddCalls(_, _, _, _, _)
AddCalls(ch, ns, ty, ids, i) ==
  IF i > Len(ch) THEN <<>>
  ELSE (IF ns[ch[i]].tag = child_element_name /\ get_id(ns[ch[i]], ty) \in ids
        THEN <<ch[i]>> \o (IF i > 1 THEN <<ch[i - 1]>> ELSE <<>>)
        ELSE <<>>) \o AddCalls(ch, ns, ty, ids, i + 1)
removal_list_dups(ch, ns, ty, ids) == AddCalls(ch, ns, ty, ids, 1)
\* `for node in nodes_to_remove`: the collected nodes, each once
removal_list(ch, ns, ty, ids) == SeqOfSet(nodes_to_remove(ch, ns, ty, ids))

\* self.node.remove(node) in turn; lxml raises ValueError for a node that is
\* not a child of the container
RECURSIVE RemoveLoop(_, _)
RemoveLoop(ch, todo) ==
  IF todo = <<>> THEN [children |-> ch, ok |-> TRUE]
  ELSE IF \A i \in 1..Len(ch) : ch[i] # Head(todo)
       THEN [children |-> ch, ok |-> FALSE]
       ELSE RemoveLoop(RemoveAll(ch, {Head(todo)}), Tail(todo))

\* KafNafElements.remove_children
remove_children(list_term_ids) ==
  LET r == RemoveLoop(children, removal_list(children, nodes, type, list_term_ids)) IN
  /\ children' = r.children
  /\ last' = Rec("remove_children", NoEntity, list_term_ids,
                 IF r.ok THEN "ok" ELSE "ValueError")
  /\ ret' = <<>>
  /\ UNCHANGED <<nodes, type, idx, sub>>

RemoveChildren == \E ids \in IdSets : remove_children(ids)

\* one pass of the conversion loop over a child node: write the identifier
\* read under `from` to `to`, then delete the attribute named `del`
ConvertNode(n, from, to, del) == NodeDel(NodeSet(n, to, NodeGet(n, from)), del)

\* the loop of to_kaf / to_naf over the matching children; Element.set raises
\* TypeError on a None value, which ends the loop with the nodes before it
\* converted and the rest untouched
RECURSIVE ConvertLoop(_, _, _, _, _)
ConvertLoop(ns, todo, from, to, del) ==
  IF todo = <<>> THEN [nodes |-> ns, ok |-> TRUE]
  ELSE IF NodeGet(ns[Head(todo)], from) = None THEN [nodes |-> ns, ok |-> FALSE]
  ELSE ConvertLoop([ns EXCEPT ![Head(todo)] = ConvertNode(@, from, to, del)],
                   Tail(todo), from, to, del)

\* loop body of to_kaf: set(kaf_identifier, get(naf_identifier)); del attrib[naf_identifier]
KafLoop(ns, todo) == ConvertLoop(ns, todo, naf_identifier, kaf_identifier, naf_identifier)
\* loop body of to_naf: set(naf_identifier, get(kaf_identifier)); del attrib[naf_identifier]
NafLoop(ns, todo) == ConvertLoop(ns, todo, kaf_identifier, naf_identifier, naf_identifier)

\* slip: the dialect test is left out and the children are always converted
to_kaf_always ==
  LET r == KafLoop(nodes, get_child_nodes(children, nodes)) IN
  /\ type' = "KAF"
  /\ nodes' = r.nodes
  /\ last' = Rec("to_kaf", NoEntity, {}, IF r.ok THEN "ok" ELSE "TypeError")
  /\ ret' = <<>>
  /\ UNCHANGED <<children, idx, sub>>

\* KafNafElements.to_kaf
to_kaf ==
  /\ IF type = "NAF"
     THEN LET r == KafLoop(nodes, get_child_nodes(children, nodes)) IN
          /\ type' = "KAF"
          /\ nodes' = r.nodes
          /\ last' = Rec("to_kaf", NoEntity, {}, IF r.ok THEN "ok" ELSE "TypeError")
     ELSE /\ UNCHANGED <<type, nodes>>
          /\ last' = Rec("to_kaf", NoEntity, {}, "noop")
  /\ ret' = <<>>
  /\ UNCHANGED <<children, idx, sub>>

\* KafNafElements.to_naf
to_naf ==
  /\ IF type = "KAF"
     THEN LET r == NafLoop(nodes, get_child_nodes(children, nodes)) IN
          /\ type' = "NAF"
          /\ nodes' = r.nodes
          /\ last' = Rec("to_naf", NoEntity, {}, IF r.ok THEN "ok" ELSE "TypeError")
     ELSE /\ UNCHANGED <<type, nodes>>
          /\ last' = Rec("to_naf", NoEntity, {}, "noop")
  /\ ret' = <<>>
  /\ UNCHANGED <<children, idx, sub>>

\* the view child_class(node, self.type) a read hands out
View(r, ty) == [node |-> r, type |-> ty]

\* slip: a lookup that finds a node no longer in the tree drops the entry
GetChildCall_prune(k) ==
  LET r == get_child(idx, k)
      gone == r # NoNode /\ \A i \in 1..Len(children) : children[i] # r
  IN /\ ret' = IF r = NoNode \/ gone THEN <<>> ELSE <<View(r, type)>>
     /\ idx' = IF gone THEN [idx EXCEPT ![k] = NoNode] ELSE idx
     /\ last' = Rec("get_child", NoEntity, {k}, IF r = NoNode \/ gone THEN "None" ELSE "ok")
     /\ UNCHANGED <<nodes, children, type, sub>>

\* a call of get_child(id) (Cterms.get_term delegates to it)
GetChildCall(k) ==
  LET r == get_child(idx, k) IN
  /\ ret' = IF r = NoNode THEN <<>> ELSE <<View(r, type)>>
  /\ last' = Rec("get_child", NoEntity, {k}, IF r = NoNode THEN "None" ELSE "ok")
  /\ UNCHANGED <<nodes, children, type, idx, sub>>

GetChild == \E k \in IdOrNone : GetChildCall(k)

\* a full iteration over the collection
Iterate ==
  /\ ret' = [i \in 1..Len(iterate(children, nodes)) |-> View(iterate(children, nodes)[i], type)]
  /\ last' = Rec("iterate", NoEntity, {}, "ok")
  /\ UNCHANGED <<nodes, children, type, idx, sub>>

Next == AddChild \/ RemoveChildren \/ to_kaf \/ to_naf \/ GetChild \/ Iterate

\* The container element is reachable through get_node(), so a caller can
\* change its children without going through the collection.
\* get_node().append(n)
DirectAppend ==
  \E n \in DocNodes :
    /\ Len(nodes) < MaxNodes
    /\ nodes' = Append(nodes, n)
    /\ children' = Append(children, Len(nodes) + 1)
    /\ last' = Rec("direct_append", NoEntity, {}, "ok")
    /\ ret' = <<>>
    /\ UNCHANGED <<type, idx, sub>>

\* get_node().remove(child) for the i-th child
DirectRemove ==
  \E i \in 1..Len(children) :
    /\ children' = RemoveAll(children, {children[i]})
    /\ last' = Rec("direct_remove", NoEntity, {}, "ok")
    /\ ret' = <<>>
    /\ UNCHANGED <<nodes, type, idx, sub>>

NextBypass == RemoveChildren \/ GetChild \/ Iterate \/ DirectAppend \/ DirectRemove
SpecBypass == Init /\ [][NextBypass]_vars

\* ------------------------------------------------------------------ Cterm
\* tags of the sub-nodes of a term
SpanTag == "span"
SentimentTag == "sentiment"
ExtRefsTag == "externalReferences"
SubNode(t, xs) == [tag |-> t, items |-> xs]
\* input domains of the term operations
Refs == {"r1", "r2"}
SpanLists == {<<"w1">>, <<"w2", "w1">>}
Sentiments == {SubNode(SentimentTag, <<"positive">>), SubNode(SentimentTag, <<"negative">>)}

\* lxml Element.find(tag): position of the first sub-node with the tag, 0 for None
find(s, t) ==
  IF \E i \in 1..Len(s) : s[i].tag = t
  THEN CHOOSE i \in 1..Len(s) : s[i].tag = t /\ \A j \in 1..(i - 1) : s[j].tag # t
  ELSE 0
\* lxml Element.findall(tag): the sub-nodes with the tag, document order
findall(s, t) == SelectSeq(s, LAMBDA x : x.tag = t)

\* external_references_data.CexternalReferences and span_data.Cspan: a fresh
\* wrapper, adding a reference to a wrapper, iterating a wrapper, building a
\* span from ids and reading its ids
NewExtRefs == SubNode(ExtRefsTag, <<>>)
ExtRefsAdd(w, ref) == [w EXCEPT !.items = Append(@, ref)]
ExtRefsIter(w) == w.items
SpanFromIds(span_list) == SubNode(SpanTag, span_list)
SpanIds(sp) == sp.items

\* slip: a new wrapper is appended for every reference
add_external_reference_fresh(s, ext_ref) == Append(s, ExtRefsAdd(NewExtRefs, ext_ref))
\* Cterm.add_external_reference on the sub-nodes s of the term
add_external_reference(s, ext_ref) ==
  IF find(s, ExtRefsTag) = 0
  THEN Append(s, ExtRefsAdd(NewExtRefs, ext_ref))
  ELSE [s EXCEPT ![find(s, ExtRefsTag)] = ExtRefsAdd(@, ext_ref)]

RECURSIVE Flatten(_)
Flatten(ws) == IF ws = <<>> THEN <<>> ELSE ExtRefsIter(Head(ws)) \o Flatten(Tail(ws))
\* Cterm.get_external_references
get_external_references(s) == Flatten(findall(s, ExtRefsTag))

\* Cterm.remove_external_references
remove_external_references(s) == SelectSeq(s, LAMBDA x : x.tag # ExtRefsTag)

\* Cterm.get_span: the position of the wrapped span node, 0 for None
get_span(s) == find(s, SpanTag)
\* Cterm.get_span_ids
get_span_ids(s) == IF find(s, SpanTag) # 0 THEN SpanIds(s[find(s, SpanTag)]) ELSE <<>>
\* slip: an existing span is replaced instead of a second one being appended
set_span_from_ids_replace(s, span_list) ==
  IF find(s, SpanTag) # 0 THEN [s EXCEPT ![find(s, SpanTag)] = SpanFromIds(span_list)]
  ELSE Append(s, SpanFromIds(span_list))
\* Cterm.set_span_from_ids
set_span_from_ids(s, span_list) == Append(s, SpanFromIds(span_list))
\* Cterm.get_sentiment: the position of the wrapped sentiment node, 0 for None
get_sentiment(s) == find(s, SentimentTag)
\* Cterm.add_sentiment
add_sentiment(s, sentiment) == Append(s, sentiment)

\* the calls on the Cterm view of node r
TermAddExternalReference(r) ==
  \E ref \in Refs :
    /\ find(sub[r], ExtRefsTag) # 0 \/ Len(sub[r]) < MaxSub
    /\ Len(get_external_references(sub[r])) < MaxRefs
    /\ sub' = [sub EXCEPT ![r] = add_external_reference(@, ref)]
    /\ last' = Rec("term_add_external_reference", ref, {}, "ok")
    /\ ret' = <<>>
    /\ UNCHANGED <<nodes, children, type, idx>>

TermRemoveExternalReferences(r) ==
  /\ sub' = [sub EXCEPT ![r] = remove_external_references(@)]
  /\ last' = Rec("remove_external_references", NoEntity, {}, "ok")
  /\ ret' = <<>>
  /\ UNCHANGED <<nodes, children, type, idx>>

TermGetExternalReferences(r) ==
  /\ ret' = get_external_references(sub[r])
  /\ last' = Rec("get_external_references", NoEntity, {}, "ok")
  /\ UNCHANGED <<nodes, children, type, idx, sub>>

TermSetSpanFromIds(r) ==
  \E span_list \in SpanLists :
    /\ Len(sub[r]) < MaxSub
    /\ sub' = [sub EXCEPT ![r] = set_span_from_ids(@, span_list)]
    /\ last' = Rec("set_span_from_ids", span_list, {}, "ok")
    /\ ret' = <<>>
    /\ UNCHANGED <<nodes, children, type, idx>>

TermGetSpan(r) ==
  /\ ret' = IF get_span(sub[r]) = 0 THEN <<>> ELSE <<get_span(sub[r])>>
  /\ last' = Rec("get_span", NoEntity, {}, IF get_span(sub[r]) = 0 THEN "None" ELSE "ok")
  /\ UNCHANGED <<nodes, children, type, idx, sub>>

TermGetSpanIds(r) ==
  /\ ret' = get_span_ids(sub[r])
  /\ last' = Rec("get_span_ids", NoEntity, {}, "ok")
  /\ UNCHANGED <<nodes, children, type, idx, sub>>

TermAddSentiment(r) ==
  \E sentiment \in Sentiments :
    /\ Len(sub[r]) < MaxSub
    /\ sub' = [sub EXCEPT ![r] = add_sentiment(@, sentiment)]
    /\ last' = Rec("add_sentiment", sentiment, {}, "ok")
    /\ ret' = <<>>
    /\ UNCHANGED <<nodes, children, type, idx>>

TermGetSentiment(r) ==
  /\ ret' = IF get_sentiment(sub[r]) = 0 THEN <<>> ELSE <<get_sentiment(sub[r])>>
  /\ last' = Rec("get_sentiment", NoEntity, {}, IF get_sentiment(sub[r]) = 0 THEN "None" ELSE "ok")
  /\ UNCHANGED <<nodes, children, type, idx, sub>>

\* sub-nodes a term is parsed with: none, one of each kind, and a document
\* with two wrappers
InitSubs ==
  { <<>>,
    <<SubNode(SpanTag, <<"w1">>)>>,
    <<SubNode(SentimentTag, <<"positive">>)>>,
    <<SubNode(ExtRefsTag, <<"r1">>)>>,
    <<SubNode(ExtRefsTag, <<>>), SubNode(SpanTag, <<"w2">>), SubNode(ExtRefsTag, <<"r2">>)>> }

\* one term t1 in a NAF layer
InitTerm ==
  \E s0 \in InitSubs :
    /\ nodes = <<MkNode(element_name, "t1", None)>>
    /\ children = <<1>>
    /\ type = "NAF"
    /\ idx = Construct(<<1>>, <<MkNode(element_name, "t1", None)>>, "NAF")
    /\ last = Rec("init", NoEntity, {}, "ok")
    /\ sub = [NoSub EXCEPT ![1] = s0]
    /\ ret = <<>>

NextTerm ==
  \/ TermAddExternalReference(1) \/ TermRemoveExternalReferences(1)
  \/ TermGetExternalReferences(1)
  \/ TermSetSpanFromIds(1) \/ TermGetSpan(1) \/ TermGetSpanIds(1)
  \/ TermAddSentiment(1) \/ TermGetSentiment(1)
SpecTerm == InitTerm /\ [][NextTerm]_vars

\* ----------------------------------------------------------------- Cterms
\* Cterms.add_external_reference
LayerAddExternalReference ==
  \E term_id \in Ids, ref \in Refs :
    IF InIdx(idx, term_id)
    THEN /\ find(sub[idx[term_id]], ExtRefsTag) # 0 \/ Len(sub[idx[term_id]]) < MaxSub
         /\ Len(get_external_references(sub[idx[term_id]])) < MaxRefs
         /\ sub' = [sub EXCEPT ![idx[term_id]] = add_external_reference(@, ref)]
         /\ last' = Rec("add_external_reference", ref, {term_id}, "ok")
         /\ ret' = <<>>
         /\ UNCHANGED <<nodes, children, type, idx>>
    ELSE /\ last' = Rec("add_external_reference", ref, {term_id}, "warning")
         /\ ret' = <<>>
         /\ UNCHANGED <<nodes, children, type, idx, sub>>

NextRefs == RemoveChildren \/ GetChild \/ LayerAddExternalReference
SpecRefs == Init /\ [][NextRefs]_vars

\* a collection built over an empty container and filled through add_child only
InitEmpty ==
  \E ty \in Dialects :
    /\ nodes = <<>>
    /\ children = <<>>
    /\ type = ty
    /\ idx = Construct(<<>>, <<>>, ty)
    /\ last = Rec("init", NoEntity, {}, "ok")
    /\ sub = NoSub
    /\ ret = <<>>
NextAddOnly == AddChild
SpecAddOnly == InitEmpty /\ [][NextAddOnly]_vars
Spec == Init /\ [][Next]_vars

TypeOK ==
  /\ type \in Dialects
  /\ \A i \in 1..Len(children) : children[i] \in 1..Len(nodes)
  /\ \A k \in IdOrNone : idx[k] \in 0..Len(nodes)

\* ------------------------------------------------------------- properties
\* The identifier of a node as a view of the collection reads it: the
\* attribute named by the dialect ty.
CurId(n, ty) == IF ty = "NAF" THEN n.attrib["id"] ELSE n.attrib["tid"]
Range(s) == {s[i] : i \in DOMAIN s}
\* the direct children of the container whose tag is the child tag
TermChildren(ch, ns) == {r \in Range(ch) : ns[r].tag = "term"}

\* Index/tree consistency: one entry per term child, keyed by its current id
IndexConsistent(ix, ch, ns, ty) ==
  /\ \A r \in TermChildren(ch, ns) : ix[CurId(ns[r], ty)] = r
  /\ \A k \in DOMAIN ix : ix[k] # NoNode =>
        /\ ix[k] \in TermChildren(ch, ns)
        /\ CurId(ns[ix[k]], ty) = k

\* C1: every operation (add_child, remove_children, to_kaf, to_naf) taken in
\* a state where the index holds exactly one entry per term child, keyed by
\* the child's current id under the current dialect, leaves the index so.
C1_IndexConsistency ==
  [][IndexConsistent(idx, children, nodes, type)
       => IndexConsistent(idx', children', nodes', type')]_vars

\* C2: add_child of an entity whose id is already a key of the index ends
\* with the duplicate-identifier error and changes neither index nor tree.
C2_DuplicateRejected ==
  [][(/\ last'.op = "add_child"
      /\ idx[CurId(last'.ent.node, last'.ent.type)] # NoNode)
       => /\ last'.res = "ValueError"
          /\ idx' = idx
          /\ children' = children
          /\ nodes' = nodes
          /\ type' = type]_vars

\* C2 witness: a rejected add_child on a collection that has children
C2_Witness ==
  /\ last.op = "add_child"
  /\ last.res = "ValueError"
  /\ TermChildren(children, nodes) # {}

\* C3: add_child of an entity whose id is not yet a key succeeds, the new
\* node becomes the last child with no other child reordered, every earlier
\* index entry is kept, get_child(id) returns a view whose get_id() is id, and
\* iteration yields the earlier entities followed by the new one.
C3_AddThenGet ==
  [][(/\ last'.op = "add_child"
      /\ idx[CurId(last'.ent.node, last'.ent.type)] = NoNode)
       => LET k == CurId(last'.ent.node, last'.ent.type) IN
          /\ last'.res = "ok"
          /\ Len(children') = Len(children) + 1
          /\ SubSeq(children', 1, Len(children)) = children
          /\ idx'[k] = children'[Len(children')]
          /\ nodes'[idx'[k]] = last'.ent.node
          /\ \A j \in DOMAIN idx : j # k => idx'[j] = idx[j]
          /\ get_child(idx', k) # NoNode
          /\ CurId(nodes'[get_child(idx', k)], type') = k
          /\ iterate(children', nodes') = Append(iterate(children, nodes), idx'[k])]_vars

\* C4: after remove_children(ids) no id of ids that was the id of a child is
\* a key of the index any more.
C4_RemovedIdsDropped ==
  [][last'.op = "remove_children"
       => \A id \in last'.ids :
            (\E r \in TermChildren(children, nodes) : CurId(nodes[r], type) = id)
              => idx'[id] = NoNode]_vars

C8_RemoveOne ==
  [][(last'.op = "remove_children" /\ Cardinality(last'.ids) = 1)
       => LET hit(i) == /\ i \in 1..Len(children)
                        /\ nodes[children[i]].tag = "term"
                        /\ CurId(nodes[children[i]], type) \in last'.ids
              stays(i) == ~hit(i) /\ ~hit(i + 1)
          IN /\ \A i \in 1..Len(children) :
                  stays(i) <=> children[i] \in Range(children')
             /\ Range(children') \subseteq Range(children)
             /\ \A a, b \in 1..Len(children') : a < b =>
                  \E i, j \in 1..Len(children) :
                     i < j /\ children[i] = children'[a] /\ children[j] = children'[b]
             /\ nodes' = nodes]_vars

\* C8 witness: a one-id remove_children has taken a comment out of the
\* container together with the term that followed it
C8_Witness ==
  /\ last.op = "remove_children"
  /\ Cardinality(last.ids) = 1
  /\ \E r \in 1..Len(nodes) : nodes[r].tag = CommentTag /\ r \notin Range(children)
  /\ \E r \in 1..Len(nodes) :
        /\ nodes[r].tag = "term" /\ r \notin Range(children)
        /\ CurId(nodes[r], type) \in last.ids

\* C9: remove_children(ids) leaves every term child whose id is not in ids a
\* child of the container, in the same relative order, still indexed as
\* before, also when it is the sibling right before a removed one.
C9_RemoveFrame ==
  [][last'.op = "remove_children"
       => LET keep == {r \in TermChildren(children, nodes) :
                          CurId(nodes[r], type) \notin last'.ids}
          IN /\ keep \subseteq Range(children')
             /\ SelectSeq(children', LAMBDA r : r \in keep)
                  = SelectSeq(children, LAMBDA r : r \in keep)
             /\ \A k \in DOMAIN idx : idx[k] \in keep => idx'[k] = idx[k]]_vars

\* No term child encodes an id under the attribute of the other dialect.
OneDialect(ch, ns, ty) ==
  \A r \in TermChildren(ch, ns) :
     ns[r].attrib[IF ty = "NAF" THEN "tid" ELSE "id"] = None

\* C10: every operation taken in a state where all the children encode their
\* id under the collection's dialect leaves the collection so (no state mixes
\* NAF-encoded and KAF-encoded children), and an entity accepted by add_child
\* has the collection's dialect.
C10_DialectInvariant ==
  [][OneDialect(children, nodes, type)
       => /\ OneDialect(children', nodes', type')
          /\ (last'.op = "add_child" /\ last'.res = "ok"
                => last'.ent.type = type')]_vars
\* C12: get_child (found or not) and iteration change neither tree, index,
\* dialect nor sub-nodes, return views of the collection's dialect, and a
\* read repeated with no mutation in between returns the same views.
C12_ReadsPure ==
  [][last'.op \in {"get_child", "iterate"}
       => /\ nodes' = nodes /\ children' = children /\ idx' = idx
          /\ type' = type /\ sub' = sub
          /\ \A i \in 1..Len(ret') : ret'[i].type = type
          /\ (last.op \in {"get_child", "iterate"} /\ last.op = last'.op
                 /\ last.ids = last'.ids => ret' = ret)
          /\ (last'.op = "get_child" =>
                 /\ last'.res = "ok" =>
                      Len(ret') = 1 /\ \A k \in last'.ids : ret'[1].node = idx[k]
                 /\ last'.res = "None" =>
                      ret' = <<>> /\ \A k \in last'.ids : idx[k] = NoNode)
          /\ (last'.op = "iterate" =>
                 /\ {ret'[i].node : i \in 1..Len(ret')} = TermChildren(children, nodes)
                 /\ \A a, b \in 1..Len(ret') : a < b =>
                      \E i, j \in 1..Len(children) :
                         i < j /\ children[i] = ret'[a].node /\ children[j] = ret'[b].node
                 /\ Len(ret') = Cardinality(TermChildren(children, nodes)))]_vars

\* C12 witness: a lookup that found a child followed by one that found none
C12_Witness ==
  /\ last.op = "get_child"
  /\ last.res = "None"
  /\ ret = <<>>
  /\ TermChildren(children, nodes) # {}
  /\ \E k \in DOMAIN idx : idx[k] # NoNode

\* C13: to_kaf() called when the dialect is not NAF, and to_naf() called when
\* it is not KAF, change neither the dialect, the nodes, the tree nor the index.
C13_ConversionNoop ==
  [][(\/ last'.op = "to_kaf" /\ type # "NAF"
      \/ last'.op = "to_naf" /\ type # "KAF")
       => /\ type' = type /\ nodes' = nodes
          /\ children' = children /\ idx' = idx]_vars

\* C13 witness: to_kaf() called on a KAF collection that has term children
C13_Witness ==
  /\ last.op = "to_kaf"
  /\ last.res = "noop"
  /\ type = "KAF"
  /\ TermChildren(children, nodes) # {}

\* C14: remove_children never fails and takes each collected node out once:
\* the container loses exactly the matching children and their preceding
\* siblings, also when a matching child is the preceding sibling of another.
C14_RemoveNeverFails ==
  [][last'.op = "remove_children"
       => LET hit == {i \in 1..Len(children) :
                        /\ nodes[children[i]].tag = "term"
                        /\ CurId(nodes[children[i]], type) \in last'.ids}
              gone == {children[i] : i \in hit}
                        \cup {children[i - 1] : i \in {j \in hit : j > 1}}
          IN /\ last'.res = "ok"
             /\ Range(children') = Range(children) \ gone
             /\ Len(children') = Len(children) - Cardinality(gone)]_vars

\* C14 witness: two adjacent terms were both requested and both removed
C14_Witness ==
  /\ last.op = "remove_children"
  /\ last.res = "ok"
  /\ Cardinality(last.ids) = 2
  /\ \E a, b \in 1..Len(nodes) :
        /\ b = a + 1
        /\ a \notin Range(children) /\ b \notin Range(children)
        /\ nodes[a].tag = "term" /\ nodes[b].tag = "term"
        /\ CurId(nodes[a], type) \in last.ids /\ CurId(nodes[b], type) \in last.ids
        /\ CurId(nodes[a], type) # CurId(nodes[b], type)

\* C15: right after construction the index maps every id to the last term
\* child, in document order, whose id under the given dialect it is, holds
\* no other key, and iteration yields every term child, duplicates included.
C15_ConstructLastWins ==
  last.op = "init" =>
    /\ \A k \in DOMAIN idx :
         LET pos == {i \in 1..Len(children) :
                       /\ nodes[children[i]].tag = "term"
                       /\ CurId(nodes[children[i]], type) = k}
         IN IF pos = {} THEN idx[k] = NoNode
            ELSE idx[k] = children[CHOOSE i \in pos : \A j \in pos : j <= i]
    /\ Range(iterate(children, nodes)) = TermChildren(children, nodes)
    /\ Len(iterate(children, nodes)) = Cardinality(TermChildren(children, nodes))

\* C15 witness: a collection built over two term children with the same id
C15_Witness ==
  /\ last.op = "init"
  /\ \E i, j \in 1..Len(children) :
        /\ i < j
        /\ nodes[children[i]].tag = "term" /\ nodes[children[j]].tag = "term"
        /\ CurId(nodes[children[i]], type) = CurId(nodes[children[j]], type)
        /\ CurId(nodes[children[i]], type) \in Ids
        /\ idx[CurId(nodes[children[j]], type)] = children[j]
\* C16: a change made to the container directly leaves the index as it was,
\* so get_child answers as before the change, while iteration yields one
\* view per term child of the changed tree, in document order.
C16_IterateLiveIndexNot ==
  [][/\ last'.op \in {"direct_append", "direct_remove"}
          => /\ idx' = idx
             /\ \A k \in DOMAIN idx : get_child(idx', k) = get_child(idx, k)
             /\ iterate(children', nodes')
                  = SelectSeq(children', LAMBDA r : nodes'[r].tag = "term")
     /\ last'.op = "iterate"
          => [i \in 1..Len(ret') |-> ret'[i].node]
               = SelectSeq(children, LAMBDA r : nodes[r].tag = "term")
     /\ last'.op = "get_child"
          => \A k \in last'.ids :
               ret' = IF idx[k] = NoNode THEN <<>> ELSE <<[node |-> idx[k], type |-> type]>>]_vars

\* C16 witness: an iteration, made after a term was taken out of the container
\* directly, that no longer yields the term the index still holds
C16_Witness ==
  /\ last.op = "iterate"
  /\ \E k \in Ids :
        /\ idx[k] # NoNode
        /\ idx[k] \notin Range(children)
        /\ \A i \in 1..Len(ret) : ret[i].node # idx[k]
  /\ \E i \in 1..Len(ret) : \A k \in DOMAIN idx : idx[k] # ret[i].node
\* C11: Cterms.add_external_reference(term_id, ref) on a layer that has a
\* term with id term_id ends with ref among that term's external references;
\* on a layer that has no such term it only warns and changes neither the
\* tree (children, their attributes and sub-nodes) nor the index.
C11_LayerAddExternalReference ==
  [][last'.op = "add_external_reference"
       => \A k \in last'.ids :
            LET terms == {r \in TermChildren(children, nodes) : CurId(nodes[r], type) = k}
            IN /\ terms # {} =>
                    /\ last'.res = "ok"
                    /\ \E r \in terms : \E i \in 1..Len(sub'[r]) :
                          /\ sub'[r][i].tag = "externalReferences"
                          /\ \E j \in 1..Len(sub'[r][i].items) :
                                sub'[r][i].items[j] = last'.ent
               /\ terms = {} =>
                    /\ last'.res = "warning"
                    /\ children' = children /\ nodes' = nodes
                    /\ idx' = idx /\ type' = type
                    /\ \A r \in Range(children) : sub'[r] = sub[r]]_vars

\* the positions of the externalReferences wrappers among the sub-nodes s
Wrappers(s) == {i \in 1..Len(s) : s[i].tag = "externalReferences"}
\* the references of a term with at most one wrapper
RefsOf(s) == IF Wrappers(s) = {} THEN <<>> ELSE s[CHOOSE i \in Wrappers(s) : TRUE].items
\* the sub-nodes of s that are not wrappers, in order
Others(s) == SelectSeq(s, LAMBDA x : x.tag # "externalReferences")

\* C17: Cterm.add_external_reference on a term with no wrapper or one wrapper
\* leaves it with exactly one wrapper whose references are the earlier ones
\* followed by the new one; get_external_references yields them in that
\* order; remove_external_references deletes every wrapper, keeps the
\* attributes and the other sub-nodes, and nothing is yielded afterwards.
C17_ExternalReferences ==
  [][/\ (last'.op = "term_add_external_reference"
            /\ Cardinality(Wrappers(sub[1])) <= 1)
          => /\ Cardinality(Wrappers(sub'[1])) = 1
             /\ RefsOf(sub'[1]) = Append(RefsOf(sub[1]), last'.ent)
             /\ get_external_references(sub'[1]) = RefsOf(sub'[1])
             /\ Others(sub'[1]) = Others(sub[1])
             /\ nodes' = nodes
     /\ (last'.op = "get_external_references"
            /\ Cardinality(Wrappers(sub[1])) <= 1)
          => ret' = RefsOf(sub[1]) /\ sub' = sub
     /\ last'.op = "remove_external_references"
          => /\ Wrappers(sub'[1]) = {}
             /\ sub'[1] = Others(sub[1])
             /\ get_external_references(sub'[1]) = <<>>
             /\ nodes' = nodes]_vars

\* C17 witness: a term that started without wrapper, got two references and
\* a span, and yields the two references in the order they were added
C17_Witness ==
  /\ last.op = "get_external_references"
  /\ Cardinality(Wrappers(sub[1])) = 1
  /\ ret = <<"r2", "r1">>
  /\ Others(sub[1]) # <<>>

\* the position of the first sub-node of s with tag t, 0 when there is none
First(s, t) ==
  IF \A i \in 1..Len(s) : s[i].tag # t THEN 0
  ELSE CHOOSE i \in 1..Len(s) : s[i].tag = t /\ \A j \in 1..Len(s) : s[j].tag = t => i <= j

\* C18: set_span_from_ids and add_sentiment append one sub-node and keep all
\* the earlier ones, so an earlier span or sentiment stays the first;
\* get_span, get_span_ids and get_sentiment answer from the first span or
\* sentiment in document order, and with none return None, [] and None.
C18_AppendOnlyFirstMatch ==
  [][/\ last'.op = "set_span_from_ids"
          => /\ Len(sub'[1]) = Len(sub[1]) + 1
             /\ SubSeq(sub'[1], 1, Len(sub[1])) = sub[1]
             /\ sub'[1][Len(sub'[1])] = [tag |-> "span", items |-> last'.ent]
             /\ (First(sub[1], "span") # 0 =>
                   get_span_ids(sub'[1]) = sub[1][First(sub[1], "span")].items)
     /\ last'.op = "add_sentiment"
          => /\ Len(sub'[1]) = Len(sub[1]) + 1
             /\ SubSeq(sub'[1], 1, Len(sub[1])) = sub[1]
             /\ sub'[1][Len(sub'[1])] = last'.ent
             /\ (First(sub[1], "sentiment") # 0 =>
                   get_sentiment(sub'[1]) = First(sub[1], "sentiment"))
     /\ last'.op = "get_span"
          => /\ sub' = sub
             /\ (last'.res = "None" <=> First(sub[1], "span") = 0)
             /\ ret' = IF First(sub[1], "span") = 0 THEN <<>> ELSE <<First(sub[1], "span")>>
     /\ last'.op = "get_span_ids"
          => /\ sub' = sub
             /\ ret' = IF First(sub[1], "span") = 0 THEN <<>>
                        ELSE sub[1][First(sub[1], "span")].items
     /\ last'.op = "get_sentiment"
          => /\ sub' = sub
             /\ (last'.res = "None" <=> First(sub[1], "sentiment") = 0)
             /\ ret' = IF First(sub[1], "sentiment") = 0 THEN <<>>
                        ELSE <<First(sub[1], "sentiment")>>]_vars

\* C18 witness: a term with two spans of different ids whose get_span_ids
\* returned the ids of the first
C18_Witness ==
  /\ last.op = "get_span_ids"
  /\ \E i, j \in 1..Len(sub[1]) :
        /\ i < j
        /\ sub[1][i].tag = "span" /\ sub[1][j].tag = "span"
        /\ sub[1][i].items # sub[1][j].items
        /\ \A h \in 1..(i - 1) : sub[1][h].tag # "span"
        /\ ret = sub[1][i].items

\* C19: on a collection filled through add_child only, an entity whose
\* get_id() is absent is accepted while the absent value is not a key and is
\* indexed under it, is rejected as a duplicate once it is a key, the key
\* never goes away, and at most one child is not indexed under a string id.
C19_AbsentIdIsAnId ==
  /\ [][/\ (last'.op = "add_child"
               /\ CurId(last'.ent.node, last'.ent.type) = None)
             => IF idx[None] = NoNode
                THEN /\ last'.res = "ok"
                     /\ idx'[None] = children'[Len(children')]
                     /\ nodes'[idx'[None]] = last'.ent.node
                ELSE /\ last'.res = "ValueError"
                     /\ idx' = idx /\ children' = children /\ nodes' = nodes
         /\ idx[None] # NoNode => idx'[None] # NoNode]_vars
  /\ [](Cardinality({r \in Range(children) : \A k \in Ids : idx[k] # r}) <= 1)

\* C19 witness: a second id-less entity was rejected by a collection that
\* holds an id-less child and a child with an id
C19_Witness ==
  /\ last.op = "add_child"
  /\ last.res = "ValueError"
  /\ CurId(last.ent.node, last.ent.type) = None
  /\ idx[None] \in Range(children)
  /\ Len(children) >= 2
====
